---- MODULE Spec2Model ----
(***************************************************************************)
(* voice2txt (V1/voice2txt.py): a command-line script that resolves an API *)
(* key and a base URL from the command line, a JSON configuration file and *)
(* the environment, optionally saves them, and sends one audio file to a   *)
(* transcription endpoint.                                                 *)
(*                                                                         *)
(* Two specifications:                                                     *)
(*   Spec    one run of the script (__main__, lines 104-160);              *)
(*   SpecCM  the ConfigManager class driven directly: construct, then      *)
(*           either get calls, or save_config and a second ConfigManager   *)
(*           on the same file.                                             *)
(*                                                                         *)
(* Python values are modelled as strings; None is the string NoneValue.    *)
(* A dict is a sequence of [k, v] records with distinct keys, in insertion *)
(* order.  The configuration file is a record: kind "absent" (no file),    *)
(* "garbage" (text that is not JSON, e.g. empty or truncated), "array" (a  *)
(* JSON value that is not an object) or "object" (the members of a JSON    *)
(* object in text order, duplicates possible in a hand-written file).      *)
(***************************************************************************)
EXTENDS Integers, Sequences, FiniteSets, TLC

\* Longest member list of a configuration file / of a mapping passed to save_config.
MaxPairs == 2

NoneValue == "<None>"
\* A variable the script has not assigned yet.
Unset == "<unset>"

ConfigKeys == {"api_key", "base_url", "model"}
StoredValues == {"", "old"}
NewValues == {"", "new"}
CliValues == {NoneValue, "", "cli"}
EnvValues == {NoneValue, "", "env"}
Defaults == {NoneValue, "dflt"}
Texts == {"", "hello"}
AudioKinds == {"missing", "directory", "unreadable", "file"}
DefaultBaseUrl == "https://api.openai.com/v1/"

(***************************************************************************)
(* Python helpers                                                          *)
(***************************************************************************)
\* bool(v) for None and strings.
Truthy(v) == v # NoneValue /\ v # ""

\* The bug "the lower-precedence source wins".
PyOrLast(a, b) == IF Truthy(b) THEN b ELSE a

\* a or b
PyOr(a, b) == IF Truthy(a) THEN a ELSE b

Pair(key, val) == [k |-> key, v |-> val]

HasKey(items, key) == \E i \in DOMAIN items : items[i].k = key

Lookup(items, key) == items[CHOOSE i \in DOMAIN items : items[i].k = key].v

\* d[key] = val: an existing key keeps its position, a new key is appended.
SetItem(items, key, val) ==
    IF HasKey(items, key)
    THEN [i \in DOMAIN items |-> IF items[i].k = key THEN Pair(key, val) ELSE items[i]]
    ELSE Append(items, Pair(key, val))

\* The bug "save replaces the document": the result holds the new items only.
dict_update_replace(items, new) == new

RECURSIVE dict_update(_, _)
\* dict.update: items.update(new)
dict_update(items, new) ==
    IF new = <<>> THEN items
    ELSE dict_update(SetItem(items, Head(new).k, Head(new).v), Tail(new))

Dict(items) == [type |-> "dict", items |-> items]
PyList == [type |-> "list", items |-> <<>>]
EmptyDict == Dict(<<>>)

(***************************************************************************)
(* The configuration file and the json module                              *)
(***************************************************************************)
NoFile == [kind |-> "absent", pairs |-> <<>>]
Garbage == [kind |-> "garbage", pairs |-> <<>>]
ArrayFile == [kind |-> "array", pairs |-> <<>>]
ObjectFile(pairs) == [kind |-> "object", pairs |-> pairs]

PairSeqs(vals) ==
    UNION {[1..n -> {Pair(key, val) : key \in ConfigKeys, val \in vals}] : n \in 0..MaxPairs}

DistinctKeys(items) ==
    \A i, j \in DOMAIN items : items[i].k = items[j].k => i = j

\* The mappings a caller can pass to save_config.
Mappings(vals) == {s \in PairSeqs(vals) : DistinctKeys(s)}

\* Every content the configuration file can have when the program starts.
Disks == {NoFile, Garbage, ArrayFile} \cup {ObjectFile(p) : p \in PairSeqs(StoredValues)}

\* os.path.exists(config_file)
os_path_exists(file) == file.kind # "absent"

\* json.load raises on text that is not JSON.
json_load_raises(file) == file.kind = "garbage"

\* json.load on valid JSON: an object becomes a dict (a repeated member name
\* keeps the last value), any other JSON value is returned as it is.
json_load(file) ==
    IF file.kind = "object" THEN Dict(dict_update(<<>>, file.pairs)) ELSE PyList

\* json.dump(config, f): the members in insertion order.
json_dump(cfg) ==
    IF cfg.type = "dict" THEN ObjectFile(cfg.items) ELSE ArrayFile

(***************************************************************************)
(* State                                                                   *)
(***************************************************************************)
VARIABLES
    disk,             \* whisper_config.json
    disk0,            \* history: the file when the process started
    env,              \* os.environ["OPENAI_API_KEY"], NoneValue when not set
    audio,            \* what args.audio_file names in the file system
    config,           \* config_manager.config
    args,             \* argparse.Namespace
    api_key_to_use,
    base_url_to_use,
    client,           \* the OpenAI client's api_key and base_url
    saved,            \* history: what the --save block did
    response,         \* history: what the transcription endpoint answered
    transcription,
    network_calls,    \* calls of client.audio.transcriptions.create
    out,              \* the printed lines, in order
    exit_status,
    pc,
    \* SpecCM only: a test driver's ConfigManager objects
    hpc, hD, hN, hwr, hreq, got, fresh

mainVars == <<disk0, env, audio, args, api_key_to_use, base_url_to_use, client, saved,
              response, transcription, network_calls, exit_status, pc>>
cmVars == <<hpc, hD, hN, hwr, hreq, got, fresh>>
vars == <<disk, config, out, mainVars, cmVars>>

Msg(tag) == [msg |-> tag, text |-> ""]
TextLine(t) == [msg |-> "text", text |-> t]
Printed(tag) == \E i \in DOMAIN out : out[i].msg = tag

WriteOutcomes == {"ok", "open_failed", "write_failed", "close_failed"}

(***************************************************************************)
(* class ConfigManager                                                     *)
(***************************************************************************)
\* _load_config: the value returned and the lines printed.  io_ok = FALSE is
\* open() or read() raising on an existing file.
ConfigManager_load_config(file, io_ok) ==
    IF os_path_exists(file)
    THEN IF io_ok /\ ~json_load_raises(file)
         THEN [config |-> json_load(file), out |-> <<>>]
         ELSE [config |-> EmptyDict, out |-> <<Msg("config_read_error")>>]
    ELSE [config |-> EmptyDict, out |-> <<>>]

\* self.config.get / self.config.update exist only on a dict.
HasDictMethods(cfg) == cfg.type = "dict"

\* get(key, default) on a dict
ConfigManager_get(cfg, key, default) ==
    IF HasKey(cfg.items, key) THEN Lookup(cfg.items, key) ELSE default

\* save_config on a dict: the new self.config, the new file and the lines printed.
\* wr = "open_failed": open(..., 'w') raises and the file is untouched;
\* wr = "write_failed": json.dump raises after the file was truncated;
\* wr = "close_failed": the text was written and leaving the with block raises.
ConfigManager_save_config(cfg, file, config_values, wr) ==
    LET merged == Dict(dict_update(cfg.items, config_values)) IN
    [config |-> merged,
     disk |-> CASE wr \in {"ok", "close_failed"} -> json_dump(merged)
                [] wr = "open_failed" -> file
                [] OTHER -> Garbage,
     out |-> IF wr = "ok" THEN <<Msg("config_saved")>> ELSE <<Msg("config_save_error")>>]

(***************************************************************************)
(* __main__: one run of the script                                         *)
(***************************************************************************)
NoArgs == [audio_file |-> Unset, base_url |-> Unset, api_key |-> Unset, save |-> FALSE]
NoClient == [api_key |-> Unset, base_url |-> Unset]
NoResponse == [kind |-> "none", text |-> ""]

Init ==
    /\ disk \in Disks
    /\ disk0 = disk
    /\ env \in EnvValues
    /\ audio \in AudioKinds
    /\ config = EmptyDict
    /\ args = NoArgs
    /\ api_key_to_use = Unset
    /\ base_url_to_use = Unset
    /\ client = NoClient
    /\ saved = "no"
    /\ response = NoResponse
    /\ transcription = Unset
    /\ network_calls = 0
    /\ out = <<>>
    /\ exit_status = 0
    /\ pc = "init"
    /\ hpc = "off" /\ hD = EmptyDict /\ hN = <<>> /\ hwr = "none"
    /\ hreq = [key |-> Unset, default |-> Unset] /\ got = Unset /\ fresh = EmptyDict

\* An exception nothing catches: the traceback is printed and the interpreter
\* exits with status 1.
Uncaught ==
    /\ out' = Append(out, Msg("traceback"))
    /\ exit_status' = 1
    /\ pc' = "done"

\* line 106: config_manager = ConfigManager()
LoadConfig ==
    /\ pc = "init"
    /\ \E io_ok \in BOOLEAN :
         LET r == ConfigManager_load_config(disk, io_ok) IN
         /\ config' = r.config
         /\ out' = out \o r.out
    /\ pc' = "parse"
    /\ UNCHANGED <<disk, disk0, env, audio, args, api_key_to_use, base_url_to_use, client,
                   saved, response, transcription, network_calls, exit_status, cmVars>>

\* line 116: args = parser.parse_args(), for a command line argparse accepts
ParseArgs ==
    /\ pc = "parse"
    /\ \E b \in CliValues, k \in CliValues, s \in BOOLEAN :
         args' = [audio_file |-> "audio", base_url |-> b, api_key |-> k, save |-> s]
    /\ pc' = "resolve_key"
    /\ UNCHANGED <<disk, disk0, env, audio, config, api_key_to_use, base_url_to_use, client,
                   saved, response, transcription, network_calls, out, exit_status, cmVars>>

\* os.getenv("OPENAI_API_KEY")
os_getenv == env

\* `not api_key_to_use` without the test: the run goes on with no key.
MissingKeyUnchecked(key) == FALSE

\* line 124: not api_key_to_use
MissingKey(key) == ~Truthy(key)

\* lines 122-126.  `or` evaluates config_manager.get only when args.api_key is
\* falsy, and os.getenv only when the stored value is falsy too.
ResolveApiKey ==
    /\ pc = "resolve_key"
    /\ IF ~Truthy(args.api_key) /\ ~HasDictMethods(config)
       THEN /\ Uncaught
            /\ UNCHANGED api_key_to_use
       ELSE LET key == PyOr(PyOr(args.api_key,
                                 ConfigManager_get(config, "api_key", NoneValue)),
                            os_getenv) IN
            /\ api_key_to_use' = key
            /\ IF MissingKey(key)
               THEN /\ out' = Append(out, Msg("missing_key_error"))
                    /\ exit_status' = 1
                    /\ pc' = "done"
               ELSE /\ pc' = "resolve_url"
                    /\ UNCHANGED <<out, exit_status>>
    /\ UNCHANGED <<disk, disk0, env, audio, config, args, base_url_to_use, client,
                   saved, response, transcription, network_calls, cmVars>>

\* lines 131-138: base_url_to_use and the client
ResolveBaseUrl ==
    /\ pc = "resolve_url"
    /\ IF ~Truthy(args.base_url) /\ ~HasDictMethods(config)
       THEN /\ Uncaught
            /\ UNCHANGED <<base_url_to_use, client>>
       ELSE LET url == PyOr(args.base_url,
                            ConfigManager_get(config, "base_url", NoneValue)) IN
            /\ base_url_to_use' = url
            /\ client' = [api_key |-> api_key_to_use,
                          base_url |-> IF Truthy(url) THEN url ELSE DefaultBaseUrl]
            /\ pc' = "save"
            /\ UNCHANGED <<out, exit_status>>
    /\ UNCHANGED <<disk, disk0, env, audio, config, args, api_key_to_use,
                   saved, response, transcription, network_calls, cmVars>>

\* The bug "only the key is saved".
ConfigToSaveKeyOnly(a) ==
    IF Truthy(a.api_key) THEN <<Pair("api_key", a.api_key)>> ELSE <<>>

\* The bug "the options are stored whether or not they were given".
ConfigToSaveAlways(a) ==
    <<Pair("api_key", a.api_key), Pair("base_url", a.base_url)>>

\* lines 142-146: config_to_save
ConfigToSave(a) ==
    (IF Truthy(a.api_key) THEN <<Pair("api_key", a.api_key)>> ELSE <<>>)
    \o (IF Truthy(a.base_url) THEN <<Pair("base_url", a.base_url)>> ELSE <<>>)

\* lines 141-152: the --save block
SaveStep ==
    /\ pc = "save"
    /\ IF ~args.save
       THEN /\ pc' = "transcribe"
            /\ UNCHANGED <<disk, config, out, saved, exit_status>>
       ELSE IF ConfigToSave(args) = <<>>
       THEN /\ out' = Append(out, Msg("save_warning"))
            /\ saved' = "warned"
            /\ pc' = "transcribe"
            /\ UNCHANGED <<disk, config, exit_status>>
       ELSE IF ~HasDictMethods(config)
       THEN /\ Uncaught
            /\ saved' = "raised"
            /\ UNCHANGED <<disk, config>>
       ELSE \E wr \in WriteOutcomes :
              LET r == ConfigManager_save_config(config, disk, ConfigToSave(args), wr) IN
              /\ config' = r.config
              /\ disk' = r.disk
              /\ out' = out \o r.out
              /\ saved' = wr
              /\ pc' = "transcribe"
              /\ UNCHANGED exit_status
    /\ UNCHANGED <<disk0, env, audio, args, api_key_to_use, base_url_to_use, client,
                   response, transcription, network_calls, cmVars>>

(***************************************************************************)
(* transcribe_audio and the end of the run                                 *)
(***************************************************************************)
\* The bug "os.path.exists instead of os.path.isfile": a directory passes.
os_path_exists_audio(kind) == kind # "missing"

\* line 78: os.path.isfile(file_path)
os_path_isfile(kind) == kind \in {"unreadable", "file"}

\* What client.audio.transcriptions.create can do: return a transcript, raise
\* APIError, or raise any other exception.
Responses ==
    {[kind |-> "ok", text |-> t] : t \in Texts}
    \cup {[kind |-> "api_error", text |-> ""], [kind |-> "exception", text |-> ""]}

\* line 155 and lines 65-102: transcription = transcribe_audio(args.audio_file, client)
Transcribe ==
    /\ pc = "transcribe"
    /\ IF ~os_path_isfile(audio)
       THEN /\ out' = Append(out, Msg("file_not_found"))
            /\ transcription' = NoneValue
            /\ UNCHANGED <<response, network_calls>>
       ELSE IF audio # "file"
       THEN \* open(file_path, "rb") raises: except Exception
            /\ out' = Append(out, Msg("unexpected_error"))
            /\ transcription' = NoneValue
            /\ UNCHANGED <<response, network_calls>>
       ELSE \E r \in Responses :
              LET head == <<Msg("uploading")>>
                          \o (IF Truthy(client.base_url) THEN <<Msg("endpoint")>> ELSE <<>>)
              IN
              /\ network_calls' = network_calls + 1
              /\ response' = r
              /\ CASE r.kind = "ok" ->
                        /\ out' = out \o head \o <<Msg("done")>>
                        /\ transcription' = r.text
                   [] r.kind = "api_error" ->
                        /\ out' = out \o head \o <<Msg("api_error")>>
                        /\ transcription' = NoneValue
                   [] OTHER ->
                        /\ out' = out \o head \o <<Msg("unexpected_error")>>
                        /\ transcription' = NoneValue
    /\ pc' = "print"
    /\ UNCHANGED <<disk, disk0, env, audio, config, args, api_key_to_use, base_url_to_use,
                   client, saved, exit_status, cmVars>>

\* lines 158-160, then the script ends and the interpreter exits with status 0
PrintResult ==
    /\ pc = "print"
    /\ out' = IF Truthy(transcription)
              THEN out \o <<Msg("result_header"), TextLine(transcription)>>
              ELSE out
    /\ exit_status' = 0
    /\ pc' = "done"
    /\ UNCHANGED <<disk, disk0, env, audio, config, args, api_key_to_use, base_url_to_use,
                   client, saved, response, transcription, network_calls, cmVars>>

Next ==
    \/ LoadConfig
    \/ ParseArgs
    \/ ResolveApiKey
    \/ ResolveBaseUrl
    \/ SaveStep
    \/ Transcribe
    \/ PrintResult

Spec == Init /\ [][Next]_vars

(***************************************************************************)
(* SpecCM: ConfigManager driven directly                                   *)
(***************************************************************************)
InitCM ==
    /\ disk \in Disks
    /\ disk0 = disk
    /\ env = NoneValue
    /\ audio = "missing"
    /\ config = EmptyDict
    /\ args = NoArgs
    /\ api_key_to_use = Unset
    /\ base_url_to_use = Unset
    /\ client = NoClient
    /\ saved = "no"
    /\ response = NoResponse
    /\ transcription = Unset
    /\ network_calls = 0
    /\ out = <<>>
    /\ exit_status = 0
    /\ pc = "off"
    /\ hpc = "new" /\ hD = EmptyDict /\ hN = <<>> /\ hwr = "none"
    /\ hreq = [key |-> Unset, default |-> Unset] /\ got = Unset /\ fresh = EmptyDict

\* lines 9-17: cm = ConfigManager()
CM_New ==
    /\ hpc = "new"
    /\ \E io_ok \in BOOLEAN :
         LET r == ConfigManager_load_config(disk, io_ok) IN
         /\ config' = r.config
         /\ out' = out \o r.out
    /\ hpc' = "ready"
    /\ UNCHANGED <<disk, mainVars, hD, hN, hwr, hreq, got, fresh>>

\* lines 52-63: cm.get(key, default); on a non-dict the AttributeError reaches the caller
CM_Get ==
    /\ hpc \in {"ready", "got"}
    /\ \E key \in ConfigKeys, default \in Defaults :
         /\ hreq' = [key |-> key, default |-> default]
         /\ IF HasDictMethods(config)
            THEN /\ got' = ConfigManager_get(config, key, default)
                 /\ hpc' = "got"
            ELSE /\ got' = Unset
                 /\ hpc' = "raised"
    /\ UNCHANGED <<disk, config, out, mainVars, hD, hN, hwr, fresh>>

\* lines 35-50: cm.save_config(N); on a non-dict the AttributeError of update
\* reaches the caller before the file is opened
CM_Save ==
    /\ hpc = "ready"
    /\ \E N \in Mappings(NewValues), wr \in WriteOutcomes :
         /\ hD' = config
         /\ hN' = N
         /\ IF HasDictMethods(config)
            THEN LET r == ConfigManager_save_config(config, disk, N, wr) IN
                 /\ config' = r.config
                 /\ disk' = r.disk
                 /\ out' = out \o r.out
                 /\ hwr' = wr
                 /\ hpc' = "saved"
            ELSE /\ hwr' = "raised"
                 /\ hpc' = "raised"
                 /\ UNCHANGED <<disk, config, out>>
    /\ UNCHANGED <<mainVars, hreq, got, fresh>>

\* a second ConfigManager() on the same file: fresh = its config
CM_Reload ==
    /\ hpc = "saved"
    /\ \E io_ok \in BOOLEAN :
         LET r == ConfigManager_load_config(disk, io_ok) IN
         /\ fresh' = r.config
         /\ out' = out \o r.out
         /\ hpc' = IF r.out = <<>> THEN "reloaded" ELSE "reload_failed"
    /\ UNCHANGED <<disk, config, mainVars, hD, hN, hwr, hreq, got>>

NextCM ==
    \/ CM_New
    \/ CM_Get
    \/ CM_Save
    \/ CM_Reload

SpecCM == InitCM /\ [][NextCM]_vars

(***************************************************************************)
(* Properties of ConfigManager (checked under SpecCM)                      *)
(***************************************************************************)
KeysOf(items) == {items[i].k : i \in DOMAIN items}

\* The value a member list gives a key: that of its last member of that name.
LastValue(pairs, key) ==
    pairs[CHOOSE i \in DOMAIN pairs :
            /\ pairs[i].k = key
            /\ \A j \in DOMAIN pairs : pairs[j].k = key => j <= i].v

\* result is D merged with N: N's keys have N's values, keys only in D keep
\* D's values, and there is no other key.
IsMerge(result, D, N) ==
    /\ result.type = "dict"
    /\ KeysOf(result.items) = KeysOf(D) \cup KeysOf(N)
    /\ \A key \in KeysOf(N) : LastValue(result.items, key) = LastValue(N, key)
    /\ \A key \in KeysOf(D) \ KeysOf(N) : LastValue(result.items, key) = LastValue(D, key)

\* The first ConfigManager read the document on disk without error: hD is
\* that document.
LoadedDocument ==
    /\ disk0.kind = "object"
    /\ ~Printed("config_read_error")
    /\ hD.type = "dict"
    /\ KeysOf(hD.items) = KeysOf(disk0.pairs)
    /\ \A key \in KeysOf(hD.items) : LastValue(hD.items, key) = LastValue(disk0.pairs, key)

\* C1 as stated: for every document D a ConfigManager has loaded and every
\* mapping N, save_config(N) followed by a fresh load yields exactly D merged
\* with N.
C1_SaveThenLoadIsMerge ==
    (hpc = "reloaded" /\ LoadedDocument) => IsMerge(fresh, hD.items, hN)

\* C1 as amended: when save_config's write succeeds and the fresh load reads
\* the file without error, the fresh load yields exactly the mapping the
\* ConfigManager held before the save merged with N.
C1_SaveThenLoadIsMergeWhenWritten ==
    (hpc = "reloaded" /\ hwr = "ok") => IsMerge(fresh, hD.items, hN)

\* A save that overrides one stored key, adds nothing to another and is read back.
C1_Witness ==
    /\ hpc = "reloaded" /\ hwr = "ok" /\ LoadedDocument
    /\ KeysOf(hD.items) = {"api_key", "base_url"}
    /\ KeysOf(hN) = {"api_key", "model"}
    /\ LastValue(hD.items, "api_key") = "old" /\ LastValue(hN, "api_key") = "new"
    /\ LastValue(fresh.items, "base_url") = "old"

\* C8: loading always yields a mapping and never ends the run: the empty
\* mapping when the file is absent, the empty mapping with the problem
\* reported when the file cannot be read or does not hold a configuration
\* document (a JSON object), the file's document otherwise; and every later
\* get(key, default) returns the stored value or the default.
C8_LoadYieldsMapping ==
    /\ hpc # "new" => config.type = "dict"
    /\ hpc \in {"ready", "got"} =>
         /\ disk0.kind = "absent" => config = EmptyDict
         /\ disk0.kind \in {"garbage", "array"} =>
              config = EmptyDict /\ Printed("config_read_error")
         /\ Printed("config_read_error") => config = EmptyDict
         /\ (disk0.kind = "object" /\ ~Printed("config_read_error")) =>
              /\ KeysOf(config.items) = KeysOf(disk0.pairs)
              /\ \A key \in KeysOf(config.items) :
                   LastValue(config.items, key) = LastValue(disk0.pairs, key)
    /\ hreq.key # Unset =>
         /\ hpc = "got"
         /\ got = IF hreq.key \in KeysOf(config.items)
                  THEN LastValue(config.items, hreq.key) ELSE hreq.default

(***************************************************************************)
(* Properties of one run (checked under Spec)                              *)
(***************************************************************************)
\* The value the loaded configuration stores under key, NoneValue when it
\* stores none (no such key, or the loaded value is not a mapping).
StoredValue(key) ==
    IF config.type = "dict" /\ key \in KeysOf(config.items)
    THEN LastValue(config.items, key) ELSE NoneValue

\* line 122 and line 131 have been passed
KeyStepDone == pc \notin {"init", "parse", "resolve_key"}
UrlStepDone == pc \in {"save", "transcribe", "print"} \/ (pc = "done" /\ base_url_to_use # Unset)

\* An api_key was resolved: line 126 was not taken.
KeyResolved == api_key_to_use # Unset /\ Truthy(api_key_to_use)

Present(v) == v # NoneValue

\* C2 as stated: every value other than None, the empty string included, counts
\* as present; api_key is the first present of CLI, stored, environment;
\* base_url the first present of CLI, stored; absent when none is present.
C2_FirstPresentSource ==
    /\ (KeyStepDone /\ config.type = "dict") =>
         api_key_to_use =
            IF Present(args.api_key) THEN args.api_key
            ELSE IF Present(StoredValue("api_key")) THEN StoredValue("api_key")
            ELSE env
    /\ (UrlStepDone /\ config.type = "dict") =>
         base_url_to_use =
            IF Present(args.base_url) THEN args.base_url ELSE StoredValue("base_url")

\* C2 as amended: a source is present when its value is a non-empty string.
\* api_key is the value of the first present source in the order CLI, stored,
\* environment, base_url that of the first present of CLI, stored (never the
\* environment), and the result is None or empty exactly when no source is
\* present.  Resolution yields a value in every run whose loaded configuration
\* is a mapping; when it is not, consulting the stored value raises.
C2_FirstNonEmptySource ==
    /\ api_key_to_use # Unset =>
         IF Truthy(args.api_key) THEN api_key_to_use = args.api_key
         ELSE IF Truthy(StoredValue("api_key")) THEN api_key_to_use = StoredValue("api_key")
         ELSE IF Truthy(env) THEN api_key_to_use = env
         ELSE ~Truthy(api_key_to_use)
    /\ base_url_to_use # Unset =>
         IF Truthy(args.base_url) THEN base_url_to_use = args.base_url
         ELSE IF Truthy(StoredValue("base_url")) THEN base_url_to_use = StoredValue("base_url")
         ELSE ~Truthy(base_url_to_use)
    /\ (KeyStepDone /\ config.type = "dict") => api_key_to_use # Unset
    /\ (KeyStepDone /\ api_key_to_use = Unset) => ~Truthy(args.api_key)
    /\ (pc \in {"save", "transcribe", "print"} /\ config.type = "dict") =>
         base_url_to_use # Unset
    /\ (pc = "done" /\ KeyResolved /\ base_url_to_use = Unset) =>
         (config.type # "dict" /\ ~Truthy(args.base_url))

\* An empty --api-key falls through to the stored key although the environment
\* has one too, and an absent --base-url resolves to the stored one.
C2_Witness ==
    /\ pc = "save"
    /\ args.api_key = "" /\ StoredValue("api_key") = "old" /\ env = "env"
    /\ api_key_to_use = "old"
    /\ args.base_url = NoneValue /\ base_url_to_use = "old"

\* No api_key on the command line, in the stored configuration or in the environment.
NoKeySupplied ==
    /\ args # NoArgs
    /\ args.api_key = NoneValue
    /\ StoredValue("api_key") = NoneValue
    /\ env = NoneValue

\* C3: in a run where no api_key is supplied by the CLI, the stored
\* configuration or the environment, the run ends with exit status 1 after
\* printing a message, and no transcription request is made, whatever the
\* other arguments are.
C3_NoKeyExitsBeforeRequest ==
    NoKeySupplied =>
        /\ network_calls = 0
        /\ ~Printed("uploading")
        /\ pc \in {"resolve_key", "done"}
        /\ pc = "done" => (exit_status = 1 /\ Len(out) > 0)

C3_Witness ==
    /\ NoKeySupplied /\ pc = "done" /\ exit_status = 1
    /\ Printed("missing_key_error")
    /\ args.save /\ args.base_url = "cli" /\ audio = "file"

\* transcribe_audio has returned
Transcribed == transcription # Unset

\* C4: for a path that does not name an existing regular file, transcribe_audio
\* returns None with the file-not-found message printed, and no request is
\* made; a request is made only after the check found a regular file.
C4_MissingFileNoRequest ==
    /\ (Transcribed /\ audio \in {"missing", "directory"}) =>
         /\ transcription = NoneValue
         /\ Printed("file_not_found")
         /\ ~Printed("uploading") /\ ~Printed("unexpected_error") /\ ~Printed("api_error")
         /\ network_calls = 0
    /\ network_calls > 0 => (audio = "file" /\ ~Printed("file_not_found"))

C4_Witness ==
    /\ pc = "done" /\ Transcribed /\ audio = "directory"
    /\ Printed("file_not_found") /\ network_calls = 0

OptionKeys == {"api_key", "base_url"}

\* The file holds a JSON object that gives key the value val.
Persisted(file, key, val) ==
    /\ file.kind = "object"
    /\ key \in KeysOf(file.pairs)
    /\ LastValue(file.pairs, key) = val

\* The members of the configuration as loaded at line 106: those of the file,
\* none when the file was absent, unreadable or not a JSON object.
LoadedPairs ==
    IF disk0.kind = "object" /\ ~Printed("config_read_error") THEN disk0.pairs ELSE <<>>

\* C5 as stated: in every invocation with --save, each of --api-key and
\* --base-url that was supplied is persisted with the supplied value, and every
\* key stored before that was not supplied keeps its prior value.
C5_SaveKeepsSuppliedAndPrior ==
    (pc = "done" /\ args.save /\ config.type = "dict") =>
        /\ \A opt \in OptionKeys :
             Present(args[opt]) => Persisted(disk, opt, args[opt])
        /\ \A key \in KeysOf(disk0.pairs) :
             (key \notin OptionKeys \/ ~Present(args[key]))
                 => Persisted(disk, key, LastValue(disk0.pairs, key))

\* C5 as amended: an invocation with --save that resolves an api_key and has
\* --api-key or --base-url with a non-empty value writes the configuration
\* file (when the loaded configuration is a mapping), and whenever that write
\* succeeds each of the two options given with a non-empty value is persisted
\* with that value and every key of the configuration as loaded that was not so
\* given keeps its value; a run that resolves no api_key leaves the file as it
\* was.
C5_SuccessfulSaveKeepsSuppliedAndLoaded ==
    /\ saved = "ok" =>
         /\ args.save
         /\ \A opt \in OptionKeys :
              Truthy(args[opt]) => Persisted(disk, opt, args[opt])
         /\ \A key \in KeysOf(LoadedPairs) :
              (key \notin OptionKeys \/ ~Truthy(args[key]))
                  => Persisted(disk, key, LastValue(LoadedPairs, key))
    /\ (pc \in {"transcribe", "print", "done"} /\ KeyResolved /\ base_url_to_use # Unset
          /\ args.save /\ config.type = "dict"
          /\ \E opt \in OptionKeys : Truthy(args[opt]))
         => saved \in WriteOutcomes
    /\ (pc = "done" /\ ~KeyResolved) => disk = disk0

\* --save with only --api-key and a stored base_url (and an unknown key): the
\* file ends with the new api_key and both stored members.
C5_Witness ==
    /\ pc = "done" /\ saved = "ok"
    /\ args.api_key = "cli" /\ args.base_url = NoneValue
    /\ KeysOf(disk0.pairs) = {"base_url", "model"}
    /\ Persisted(disk, "api_key", "cli")
    /\ Persisted(disk, "base_url", "old")
    /\ Persisted(disk, "model", "old")

\* C6 as stated: in every invocation with --save where neither --api-key nor
\* --base-url is supplied, the stored document after the run is the one before
\* the run and a warning is emitted.
C6_SaveWithoutValuesWarns ==
    (pc = "done" /\ args.save /\ config.type = "dict"
       /\ args.api_key = NoneValue /\ args.base_url = NoneValue)
        => (disk = disk0 /\ Printed("save_warning"))

\* C6 as amended: in every invocation with --save where neither --api-key nor
\* --base-url is supplied the file is never written; the warning is emitted
\* when an api_key is resolved (from the stored configuration or the
\* environment), and otherwise the run ends with status 1 before the --save
\* block, without the warning.
C6_SaveWithoutValuesWritesNothing ==
    (args.save /\ args.api_key = NoneValue /\ args.base_url = NoneValue) =>
        /\ disk = disk0
        /\ ~Printed("config_saved") /\ ~Printed("config_save_error")
        /\ pc = "done" =>
             /\ Printed("save_warning") <=> KeyResolved
             /\ ~KeyResolved => exit_status = 1

C6_Witness ==
    /\ pc = "done" /\ args.save
    /\ args.api_key = NoneValue /\ args.base_url = NoneValue
    /\ disk0.kind = "object" /\ disk = disk0
    /\ Printed("save_warning") /\ KeyResolved /\ exit_status = 0

\* C7: the missing-credential case is the only condition that makes the
\* process exit with a non-zero status: a run that resolves an api_key exits
\* with status 0 whatever happens afterwards.
C7_OnlyMissingKeyExitsNonZero ==
    (pc = "done" /\ KeyResolved) => exit_status = 0

\* C9: a run makes at most one transcription request, exactly one when an
\* api_key is resolved and the audio file exists and is readable; no request
\* follows a request (nothing is retried), and the configuration is saved
\* before the request.
C9_ExactlyOneRequest ==
    /\ network_calls <= 1
    /\ (pc = "done" /\ KeyResolved /\ audio = "file") => network_calls = 1
    /\ network_calls = 1 => pc \in {"print", "done"}

\* C10: a transcript is printed if and only if the request succeeded, it is
\* then exactly the text the service returned, whatever that text is, and a
\* run that reaches transcribe_audio prints either the result or an error.
C10_TranscriptPrintedIffSuccess ==
    (pc = "done" /\ Transcribed) =>
        /\ Printed("text") <=> response.kind = "ok"
        /\ Printed("text") => out[Len(out)] = TextLine(response.text)
        /\ \/ Printed("text")
           \/ Printed("file_not_found") \/ Printed("api_error") \/ Printed("unexpected_error")

====
